---- MODULE Spec2Model ----
(***************************************************************************)
(* RandomImageFactory of waynr/image-generator: the pool of random files,  *)
(* the shuffle of their paths, the generated dockerfile, the tar build     *)
(* context and the hand-over to the docker daemon.                         *)
(*                                                                         *)
(* The package exists in two variants in the source: the current one       *)
(* (NewRandomImageFactory, a seeded *rand.Rand owned by the factory) and   *)
(* the legacy one used by cmd/build.go (struct literal, a new source per   *)
(* randBytes call, the package-level math/rand for the shuffle).  The      *)
(* variable `variant` says which one a behaviour runs.                     *)
(*                                                                         *)
(* Text (paths, dockerfile, file contents) is held as sequences of byte    *)
(* values.  A 63-bit draw of the random source does not fit the checker's  *)
(* integers and is held as its base-2^letterIdxBits digits, least          *)
(* significant first.                                                      *)
(***************************************************************************)
EXTENDS Integers, Sequences, FiniteSets, TLC

(***************************************************************************)
(* Bounds of the model.                                                    *)
(***************************************************************************)
MaxSeed == 2
MaxSizeKB == 1
MaxCount == 2
MaxCalls == 2
MaxRandN == 2
MaxTable == 130
MaxBadDraws == 2

Seeds ==
  1..MaxSeed
SizesKB ==
  1..MaxSizeKB
Counts ==
  0..MaxCount

(***************************************************************************)
(* Program constants.                                                      *)
(***************************************************************************)
letterBytes ==
  [k \in 1..52 |-> IF k <= 26 THEN 96 + k ELSE 38 + k]
letterIdxBits == 6
letterIdxMask ==
  2^letterIdxBits - 1
letterIdxMax ==
  63 \div letterIdxBits
BytesPerKB == 1024
TarMode == 384
GlobalSeed == 1
MaxInt31 == 2147483647

baseImageDir ==
  <<103, 101, 110, 101, 114, 97, 116, 101, 100, 45, 102, 105, 108, 101, 115>>
dockerfileName ==
  <<46, 47, 100, 111, 99, 107, 101, 114, 102, 105, 108, 101, 46, 103, 101, 110,
    101, 114, 97, 116, 101, 100>>
dockerfileHeader ==
  <<70, 82, 79, 77, 32, 115, 99, 114, 97, 116, 99, 104, 10>>

\* The value of a path that holds no file.
NoFile ==
  <<-1>>
\* What a file left behind by something else than this program may hold.
Junk ==
  <<48, 10>>
nil ==
  "nil"

(***************************************************************************)
(* fmt.Sprintf("%d", n) and path.Join.                                     *)
(***************************************************************************)
RECURSIVE Itoa(_)
Itoa(n) ==
  IF n < 0 THEN <<45>> \o Itoa(0 - n)
  ELSE IF n < 10 THEN <<48 + n>>
  ELSE Itoa(n \div 10) \o <<48 + (n % 10)>>

PathJoin(dir, name) ==
  dir \o <<47>> \o name

\* f.imageDir (current variant) or the package variable imageDir (legacy).
ImageDir(v, sd) ==
  IF v = "legacy" THEN baseImageDir ELSE PathJoin(baseImageDir, Itoa(sd))

\* fmt.Sprintf("random_%dKB_%d.txt", layerSizeKB, i)
FileName(sizeKB, i) ==
  <<114, 97, 110, 100, 111, 109, 95>> \o Itoa(sizeKB) \o <<75, 66, 95>>
    \o Itoa(i) \o <<46, 116, 120, 116>>

FilePath(v, sd, sizeKB, i) ==
  PathJoin(ImageDir(v, sd), FileName(sizeKB, i))

(***************************************************************************)
(* The random source.  math/rand is deterministic in the seed: the k-th    *)
(* Int63 of a source is a function of the seed and k.  Which function is   *)
(* the library's business; the model takes a fixed mixing function.        *)
(***************************************************************************)
Mix(sd, k, c) ==
  LET h == (sd * 7919 + k * 104729 + c * 1299709) % 32749
  IN (h * h) \div 64

\* The k-th Int63 of a source seeded with seed: ten 6-bit digits and the
\* three top bits.
Int63(sd, k) ==
  [c \in 1..(letterIdxMax + 1) |->
     IF c <= letterIdxMax THEN Mix(sd, k, c) % (letterIdxMask + 1)
     ELSE Mix(sd, k, c) % 8]

\* Int31 is Int63 >> 32: bits 32..62 of the draw.
Int31(d) ==
  (d[6] \div 4) + 16 * (d[7] + 64 * (d[8] + 64 * (d[9] + 64 * (d[10] + 64 * d[11]))))

\* rand.Int31n(n), reading the source from its k-th draw on: the value and
\* the number of draws taken.
RECURSIVE Int31nLoop(_, _, _, _, _)
Int31nLoop(sd, k, n, max, taken) ==
  LET v == Int31(Int63(sd, k))
  IN IF v > max THEN Int31nLoop(sd, k + 1, n, max, taken + 1)
     ELSE [v |-> v % n, taken |-> taken + 1]

Intn(sd, k, n) ==
  LET pow2 == \E e \in 0..30 : n = 2^e
      max == MaxInt31 - (((MaxInt31 % n) + 1) % n)
  IN IF pow2 THEN [v |-> Int31(Int63(sd, k)) % n, taken |-> 1]
     ELSE Int31nLoop(sd, k, n, max, 0)

(***************************************************************************)
(* randBytes.  One iteration of its loop is randBytesIter; st holds the    *)
(* loop variables i, cache, remain, the buffer b, and the number of draws  *)
(* taken from the source so far.  draw is the value the source returns if  *)
(* this iteration asks for one.                                            *)
(***************************************************************************)
randBytesInit(n, draw) ==
  [i |-> n - 1, cache |-> draw, remain |-> letterIdxMax,
   b |-> [k \in 1..n |-> 0], taken |-> 1]

\* randBytesIter without the rejection: the digit is reduced modulo the
\* alphabet and every digit yields a byte.
randBytesIterNoReject(st, draw) ==
  LET refill == st.remain = 0
      cache == IF refill THEN draw ELSE st.cache
      remain == IF refill THEN letterIdxMax ELSE st.remain
      idx == Head(cache) % Len(letterBytes)
  IN [i |-> st.i - 1,
      cache |-> Tail(cache),
      remain |-> remain - 1,
      b |-> [st.b EXCEPT ![st.i + 1] = letterBytes[idx + 1]],
      taken |-> IF refill THEN st.taken + 1 ELSE st.taken]

randBytesIter(st, draw) ==
  LET refill == st.remain = 0
      cache == IF refill THEN draw ELSE st.cache
      remain == IF refill THEN letterIdxMax ELSE st.remain
      idx == Head(cache)
      hit == idx < Len(letterBytes)
  IN [i |-> IF hit THEN st.i - 1 ELSE st.i,
      cache |-> Tail(cache),
      remain |-> remain - 1,
      b |-> IF hit THEN [st.b EXCEPT ![st.i + 1] = letterBytes[idx + 1]] ELSE st.b,
      taken |-> IF refill THEN st.taken + 1 ELSE st.taken]

\* k iterations of the loop, or as many as it makes; split in halves so that
\* the depth of the evaluation stays logarithmic in k.
RECURSIVE randBytesRun(_, _, _, _)
randBytesRun(st, sd, pos, k) ==
  IF k = 0 \/ st.i < 0 THEN st
  ELSE IF k = 1 THEN randBytesIter(st, Int63(sd, pos + st.taken))
  ELSE randBytesRun(randBytesRun(st, sd, pos, k \div 2), sd, pos, k - (k \div 2))

RECURSIVE randBytesLoop(_, _, _)
randBytesLoop(st, sd, pos) ==
  IF st.i < 0 THEN st
  ELSE randBytesLoop(randBytesRun(st, sd, pos, st.i + 1), sd, pos)

\* randBytes(n) on a source seeded with seed that has been read pos times:
\* the bytes, and the number of draws taken.
randBytes(n, sd, pos) ==
  LET st == randBytesLoop(randBytesInit(n, Int63(sd, pos)), sd, pos)
  IN [b |-> st.b, taken |-> st.taken]

(***************************************************************************)
(* The file system, as far as the program touches it.                      *)
(***************************************************************************)
\* Exists when the pool never takes a file for present.
ExistsNever(fsys, p) ==
  FALSE

\* os.Stat(filePath) returned no error.
Exists(fsys, p) ==
  fsys[p] # NoFile

\* ioutil.WriteFile that succeeds.
WriteFile(fsys, p, data) ==
  [fsys EXCEPT ![p] = data]

\* ioutil.WriteFile that fails: either the open failed and nothing changed
\* ("write"), or the file was created or truncated and the write failed
\* ("writeTrunc").
WriteFileFailed(fsys, p, kind) ==
  IF kind = "writeTrunc" THEN [fsys EXCEPT ![p] = <<>>] ELSE fsys

NoFault ==
  [kind |-> "none", at |-> -1]

(***************************************************************************)
(* generateRandomFilePool.  st holds f.allGeneratedFiles (files), the file *)
(* system, the number of draws taken from f.src, the set of paths written  *)
(* by this call and the error; c holds the variant, the seed and the       *)
(* arguments.  fault names the system call that fails in this call.        *)
(***************************************************************************)
\* FileSize with a decimal kilobyte.
FileSizeDecimal(sizeKB) ==
  1000 * sizeKB

FileSize(sizeKB) ==
  BytesPerKB * sizeKB

\* randBytes is a function of its length, the seed and the source's position.
\* Its values for the file sizes and the first positions are tabulated, so
\* that they are computed once; randBytesAt is randBytes.
randBytesTable ==
  [sz \in SizesKB |-> [s \in Seeds |-> [p \in 0..MaxTable |->
     randBytes(FileSize(sz), s, p)]]]

randBytesAt(sizeKB, s, pos) ==
  IF sizeKB \in SizesKB /\ s \in Seeds /\ pos \in 0..MaxTable
    THEN randBytesTable[sizeKB][s][pos]
  ELSE randBytes(FileSize(sizeKB), s, pos)

PoolFaults(count) ==
  {NoFault, [kind |-> "mkdir", at |-> -1]}
    \cup {[kind |-> k, at |-> i] : k \in {"stat", "write", "writeTrunc"}, i \in 0..(count - 1)}

\* poolIter that appends the path only after the file is found missing.
poolIterAppendLate(i, st, c, fault) ==
  LET filePath == FilePath(c.v, c.seed, c.sizeKB, i)
      files == Append(st.files, filePath)
      rb == randBytes(BytesPerKB * c.sizeKB, c.seed, IF c.v = "legacy" THEN 0 ELSE st.src)
      srcAfter == IF c.v = "legacy" THEN st.src ELSE st.src + rb.taken
  IN IF fault.at = i /\ fault.kind = "stat"
       THEN [st EXCEPT !.err = "stat"]
     ELSE IF st.fsys[filePath] # NoFile
       THEN st
     ELSE IF fault.at = i /\ fault.kind \in {"write", "writeTrunc"}
       THEN [st EXCEPT !.files = files, !.src = srcAfter, !.err = "write",
                       !.fsys = [@ EXCEPT ![filePath] =
                                   IF fault.kind = "writeTrunc" THEN <<>> ELSE @]]
     ELSE [st EXCEPT !.files = files, !.src = srcAfter,
                     !.fsys = [@ EXCEPT ![filePath] = rb.b],
                     !.written = @ \cup {filePath}]

\* One iteration of the loop over i.
poolIter(i, st, c, fault) ==
  LET filePath == FilePath(c.v, c.seed, c.sizeKB, i)
      files == Append(st.files, filePath)
      \* the legacy randBytes makes its own source from f.Seed on every call
      rb == randBytesAt(c.sizeKB, c.seed, IF c.v = "legacy" THEN 0 ELSE st.src)
      srcAfter == IF c.v = "legacy" THEN st.src ELSE st.src + rb.taken
  IN IF fault.at = i /\ fault.kind = "stat"
       THEN [st EXCEPT !.files = files, !.err = "stat"]
     ELSE IF Exists(st.fsys, filePath)
       THEN [st EXCEPT !.files = files]
     ELSE IF fault.at = i /\ fault.kind \in {"write", "writeTrunc"}
       THEN [st EXCEPT !.files = files, !.src = srcAfter, !.err = "write",
                       !.fsys = WriteFileFailed(@, filePath, fault.kind)]
     ELSE [st EXCEPT !.files = files, !.src = srcAfter,
                     !.fsys = WriteFile(@, filePath, rb.b),
                     !.written = @ \cup {filePath}]

RECURSIVE poolLoop(_, _, _, _)
poolLoop(i, st, c, fault) ==
  IF i >= c.count \/ st.err # nil THEN st
  ELSE poolLoop(i + 1, poolIter(i, st, c, fault), c, fault)

generateRandomFilePool(st, c, fault) ==
  IF fault.kind = "mkdir" THEN [st EXCEPT !.err = "mkdir"]
  ELSE poolLoop(0, st, c, fault)

(***************************************************************************)
(* shuffleGeneratedFilePaths.  Indices are the code's, from 0.             *)
(***************************************************************************)
\* swap that loses the element at i.
swapOverwrite(list, i, j) ==
  [list EXCEPT ![i + 1] = list[j + 1]]

swap(list, i, j) ==
  [list EXCEPT ![i + 1] = list[j + 1], ![j + 1] = list[i + 1]]

\* st holds the list, the j drawn at every i so far, and the number of draws
\* taken; the source is the one seeded with seed, read pos times before.
RECURSIVE shuffleLoop(_, _, _, _)
shuffleLoop(i, st, sd, pos) ==
  IF i >= Len(st.list) THEN st
  ELSE LET r == Intn(sd, pos + st.taken, i + 1)
       IN shuffleLoop(i + 1,
                      [list |-> swap(st.list, i, r.v),
                       js |-> Append(st.js, r.v),
                       taken |-> st.taken + r.taken],
                      sd, pos)

shuffleGeneratedFilePaths(list, sd, pos) ==
  shuffleLoop(0, [list |-> list, js |-> <<>>, taken |-> 0], sd, pos)

(***************************************************************************)
(* generateDockerfile.                                                     *)
(***************************************************************************)
\* fmt.Sprintf("ADD %s /opt\n", path)
AddLine(path) ==
  <<65, 68, 68, 32>> \o path \o <<32, 47, 111, 112, 116, 10>>

RECURSIVE dockerfileText(_)
dockerfileText(filePaths) ==
  IF filePaths = <<>> THEN dockerfileHeader
  ELSE dockerfileText(SubSeq(filePaths, 1, Len(filePaths) - 1))
         \o AddLine(filePaths[Len(filePaths)])

DockerfileFaults ==
  {NoFault, [kind |-> "write", at |-> -1], [kind |-> "writeTrunc", at |-> -1]}

generateDockerfile(fsys, filePaths, fault) ==
  IF fault.kind = "none"
    THEN [fsys |-> WriteFile(fsys, dockerfileName, dockerfileText(filePaths)), err |-> nil]
  ELSE [fsys |-> WriteFileFailed(fsys, dockerfileName, fault.kind), err |-> "dockerfile"]

(***************************************************************************)
(* createArchive.  The archive is the sequence of its entries; an entry    *)
(* holds the header fields and the body written after it.                  *)
(***************************************************************************)
NoTar ==
  [exists |-> FALSE, entries |-> <<>>]

ArchiveFaults(n) ==
  {NoFault, [kind |-> "create", at |-> -1]}
    \cup {[kind |-> k, at |-> i] : k \in {"stat", "read", "header", "body"}, i \in 1..n}

\* One iteration of the loop over filePaths: st holds the entries and the error.
archiveIter(k, st, fsys, filePaths, fault) ==
  LET filePath == filePaths[k]
      bs == fsys[filePath]
      hdr == [Name |-> filePath, Mode |-> TarMode, Size |-> Len(bs)]
  IN IF ~Exists(fsys, filePath) \/ (fault.at = k /\ fault.kind = "stat")
       THEN [st EXCEPT !.err = "tarStat"]
     ELSE IF fault.at = k /\ fault.kind = "read"
       THEN [st EXCEPT !.err = "tarRead"]
     ELSE IF fault.at = k /\ fault.kind = "header"
       THEN [st EXCEPT !.err = "tarHeader"]
     ELSE IF fault.at = k /\ fault.kind = "body"
       THEN [entries |-> Append(st.entries, [hdr |-> hdr, body |-> <<>>]),
             err |-> "tarBody"]
     ELSE [entries |-> Append(st.entries, [hdr |-> hdr, body |-> bs]), err |-> nil]

RECURSIVE archiveLoop(_, _, _, _, _)
archiveLoop(k, st, fsys, filePaths, fault) ==
  IF k > Len(filePaths) \/ st.err # nil THEN st
  ELSE archiveLoop(k + 1, archiveIter(k, st, fsys, filePaths, fault), fsys, filePaths, fault)

createArchive(old, fsys, filePaths, fault) ==
  IF fault.kind = "create" THEN [tar |-> old, err |-> "tarCreate"]
  ELSE LET st == archiveLoop(1, [entries |-> <<>>, err |-> nil], fsys, filePaths, fault)
       IN [tar |-> [exists |-> TRUE, entries |-> st.entries], err |-> st.err]

\* afterStage without the check of the error.
afterStageIgnore(e, next) ==
  next

\* "if err != nil { return err }" after a stage of GenerateImage.
afterStage(e, next) ==
  IF e = nil THEN next ELSE "returned"

(***************************************************************************)
(* State.                                                                  *)
(***************************************************************************)
VARIABLES
  variant,            \* "current" or "legacy"
  seed,               \* the seed of every factory of the behaviour
  fs,                 \* path -> content: the pool files and the dockerfile
  tar,                \* $PWD/context.tar
  builds,             \* number of requests the docker daemon has received
  globalRand,         \* draws taken from the package-level math/rand source
  allGeneratedFiles,  \* f.allGeneratedFiles
  src,                \* draws taken from f.src
  dockerClient,       \* f.dockerClient # nil
  layerSizeKB,        \* argument of GenerateImage (legacy: f.LayerSizeKB)
  layerCount,         \* argument of GenerateImage (legacy: f.LayerCount)
  pc,                 \* where GenerateImage stands
  err,                \* the error GenerateImage returns
  calls,              \* history: calls of GenerateImage so far
  factoryCalls,       \* history: calls of GenerateImage on this factory
  preFs,              \* history: fs when the call started
  preFiles,           \* history: f.allGeneratedFiles when the call started
  preBuilds,          \* history: builds when the call started
  written,            \* history: pool paths written by the call
  stages,             \* history: the stages the call has run
  rerun,              \* history: an earlier call's pool with the same arguments succeeded
  pooled,             \* history: the arguments of the pools that succeeded
  unshuffled,         \* history: the list handed to the last shuffle
  js,                 \* history: the j drawn at every i of the last shuffle
  lastOrder,          \* history: the order the last successful first call on a factory left
  prevOrder,          \* history: the one before
  fn                  \* the state of a single randBytes or shuffle loop (SpecFn)

progVars ==
  <<variant, seed, fs, tar, builds, globalRand, allGeneratedFiles, src, dockerClient,
    layerSizeKB, layerCount, pc, err>>
histVars ==
  <<calls, factoryCalls, preFs, preFiles, preBuilds, written, stages, rerun, pooled, unshuffled,
    js, lastOrder, prevOrder>>
vars ==
  <<progVars, histVars, fn>>

Variants ==
  {"current", "legacy"}

PoolPaths(v, s) ==
  {FilePath(v, s, sz, i) : sz \in SizesKB, i \in 0..(MaxCount - 1)}

NoOrder ==
  [valid |-> FALSE, sizeKB |-> 0, count |-> 0, order |-> <<>>]

FnIdle ==
  [mode |-> "idle"]

\* The state after the factory is constructed: NewRandomImageFactory(seed), or
\* the struct literal of cmd/build.go.  The pool directory holds any files.
Init ==
  /\ variant \in Variants
  /\ seed \in Seeds
  /\ \E pre \in SUBSET PoolPaths(variant, seed) :
       fs = [p \in PoolPaths(variant, seed) \cup {dockerfileName} |->
               IF p \in pre THEN Junk ELSE NoFile]
  /\ tar = NoTar
  /\ builds = 0
  /\ globalRand = 0
  /\ allGeneratedFiles = <<>>
  /\ src = 0
  /\ dockerClient = FALSE
  /\ IF variant = "legacy"
       THEN layerSizeKB \in SizesKB /\ layerCount \in Counts
       ELSE layerSizeKB = 0 /\ layerCount = 0
  /\ pc = "idle"
  /\ err = nil
  /\ calls = 0
  /\ factoryCalls = 0
  /\ preFs = fs
  /\ preFiles = <<>>
  /\ preBuilds = 0
  /\ written = {}
  /\ stages = <<>>
  /\ rerun = FALSE
  /\ pooled = {}
  /\ unshuffled = <<>>
  /\ js = <<>>
  /\ lastOrder = NoOrder
  /\ prevOrder = NoOrder
  /\ fn = FnIdle

(***************************************************************************)
(* Operations.                                                             *)
(***************************************************************************)
\* A new factory: NewRandomImageFactory(seed) (current), or a new run of
\* cmd/build.go, which is a new process (legacy).
NewRandomImageFactory ==
  /\ pc \in {"idle", "returned"}
  /\ factoryCalls > 0
  /\ calls < MaxCalls
  /\ allGeneratedFiles' = <<>>
  /\ src' = 0
  /\ dockerClient' = FALSE
  /\ IF variant = "legacy"
       THEN /\ globalRand' = 0
            /\ layerSizeKB' \in SizesKB
            /\ layerCount' \in Counts
       ELSE UNCHANGED <<globalRand, layerSizeKB, layerCount>>
  /\ pc' = "idle"
  /\ err' = nil
  /\ factoryCalls' = 0
  /\ UNCHANGED <<variant, seed, fs, tar, builds, calls, preFs, preFiles, preBuilds, written,
                 stages, rerun, pooled, unshuffled, js, lastOrder, prevOrder, fn>>

\* GenerateImage is called.
GenerateImage ==
  /\ pc \in {"idle", "returned"}
  /\ calls < MaxCalls
  /\ IF variant = "legacy"
       THEN UNCHANGED <<layerSizeKB, layerCount>>
       ELSE layerSizeKB' \in SizesKB /\ layerCount' \in Counts
  /\ pc' = "pool"
  /\ err' = nil
  /\ calls' = calls + 1
  /\ factoryCalls' = factoryCalls + 1
  /\ preFs' = fs
  /\ preFiles' = allGeneratedFiles
  /\ preBuilds' = builds
  /\ written' = {}
  /\ stages' = <<>>
  /\ rerun' = (<<layerSizeKB', layerCount'>> \in pooled)
  /\ UNCHANGED <<variant, seed, fs, tar, builds, globalRand, allGeneratedFiles, src,
                 dockerClient, pooled, unshuffled, js, lastOrder, prevOrder, fn>>

GenerateRandomFilePool ==
  /\ pc = "pool"
  /\ \E fault \in PoolFaults(layerCount) :
       LET c == [v |-> variant, seed |-> seed, sizeKB |-> layerSizeKB, count |-> layerCount]
           r == generateRandomFilePool(
                  [files |-> allGeneratedFiles, fsys |-> fs, src |-> src,
                   written |-> {}, err |-> nil], c, fault)
       IN /\ allGeneratedFiles' = r.files
          /\ fs' = r.fsys
          /\ src' = r.src
          /\ written' = r.written
          /\ err' = r.err
          /\ pc' = afterStage(r.err, "shuffle")
          /\ pooled' = IF r.err = nil THEN pooled \cup {<<layerSizeKB, layerCount>>}
                       ELSE pooled
  /\ stages' = Append(stages, "pool")
  /\ UNCHANGED <<variant, seed, tar, builds, globalRand, dockerClient, layerSizeKB,
                 layerCount, calls, factoryCalls, preFs, preFiles, preBuilds, rerun, unshuffled,
                 js, lastOrder, prevOrder, fn>>

ShuffleGeneratedFilePaths ==
  /\ pc = "shuffle"
  /\ LET r == IF variant = "legacy"
                THEN shuffleGeneratedFilePaths(allGeneratedFiles, GlobalSeed, globalRand)
                ELSE shuffleGeneratedFilePaths(allGeneratedFiles, seed, src)
     IN /\ allGeneratedFiles' = r.list
        /\ js' = r.js
        /\ IF variant = "legacy"
             THEN globalRand' = globalRand + r.taken /\ src' = src
             ELSE src' = src + r.taken /\ globalRand' = globalRand
  /\ unshuffled' = allGeneratedFiles
  /\ pc' = "dockerfile"
  /\ stages' = Append(stages, "shuffle")
  /\ UNCHANGED <<variant, seed, fs, tar, builds, dockerClient, layerSizeKB, layerCount,
                 err, calls, factoryCalls, preFs, preFiles, preBuilds, written, rerun,
                 pooled, lastOrder, prevOrder, fn>>

GenerateDockerfile ==
  /\ pc = "dockerfile"
  /\ \E fault \in DockerfileFaults :
       LET r == generateDockerfile(fs, allGeneratedFiles, fault)
       IN /\ fs' = r.fsys
          /\ err' = r.err
          /\ pc' = afterStage(r.err, "archive")
  /\ stages' = Append(stages, "dockerfile")
  /\ UNCHANGED <<variant, seed, tar, builds, globalRand, allGeneratedFiles, src,
                 dockerClient, layerSizeKB, layerCount, calls, factoryCalls, preFs,
                 preFiles, preBuilds, written, rerun, pooled, unshuffled, js, lastOrder,
                 prevOrder, fn>>

CreateArchive ==
  /\ pc = "archive"
  /\ LET files == Append(allGeneratedFiles, dockerfileName)
     IN \E fault \in ArchiveFaults(Len(files)) :
          LET r == createArchive(tar, fs, files, fault)
          IN /\ tar' = r.tar
             /\ err' = r.err
             /\ pc' = afterStage(r.err, "build")
  /\ stages' = Append(stages, "archive")
  /\ UNCHANGED <<variant, seed, fs, builds, globalRand, allGeneratedFiles, src,
                 dockerClient, layerSizeKB, layerCount, calls, factoryCalls, preFs,
                 preFiles, preBuilds, written, rerun, pooled, unshuffled, js, lastOrder,
                 prevOrder, fn>>

\* getDockerClient, os.Open(tarFile) and cli.ImageBuild.
ImageBuild ==
  /\ pc = "build"
  /\ \E fault \in {"none", "client", "open", "build"} :
       /\ dockerClient' = (dockerClient \/ fault # "client")
       /\ builds' = IF fault \in {"none", "build"} THEN builds + 1 ELSE builds
       /\ err' = IF fault = "none" THEN nil ELSE fault
       /\ IF fault = "none" /\ factoryCalls = 1
            THEN /\ prevOrder' = lastOrder
                 /\ lastOrder' = [valid |-> TRUE, sizeKB |-> layerSizeKB,
                                  count |-> layerCount, order |-> allGeneratedFiles]
            ELSE UNCHANGED <<lastOrder, prevOrder>>
  /\ pc' = "returned"
  /\ stages' = Append(stages, "build")
  /\ UNCHANGED <<variant, seed, fs, tar, globalRand, allGeneratedFiles, src,
                 layerSizeKB, layerCount, calls, factoryCalls, preFs, preFiles, preBuilds,
                 written, rerun, pooled, unshuffled, js, fn>>

Next ==
  \/ NewRandomImageFactory
  \/ GenerateImage
  \/ GenerateRandomFilePool
  \/ ShuffleGeneratedFilePaths
  \/ GenerateDockerfile
  \/ CreateArchive
  \/ ImageBuild

Spec ==
  Init /\ [][Next]_vars

(***************************************************************************)
(* A single randBytes loop and a single shuffle loop, run one iteration a  *)
(* step on a source that may return any value: SpecFn.  The draws are the  *)
(* 63-bit values whose ten 6-bit digits are each the last letter index or  *)
(* the first index that is no letter.  The source returns at most          *)
(* MaxBadDraws values before it returns only values that hold a letter     *)
(* index.                                                                  *)
(***************************************************************************)
Draws ==
  {d \o <<0>> : d \in [1..letterIdxMax -> {Len(letterBytes) - 1, Len(letterBytes)}]}

GoodDraws ==
  {d \in Draws : \E c \in 1..letterIdxMax : d[c] < Len(letterBytes)}

SourceDraws(taken) ==
  IF taken < MaxBadDraws THEN Draws ELSE GoodDraws

\* The lists the shuffle is run on: paths, some of them more than once.
Lists ==
  UNION {[1..len -> {FilePath("current", 1, 1, i) : i \in 0..MaxCount}] :
           len \in 0..(MaxCount + 1)}

InitFn ==
  /\ variant = "current"
  /\ seed = 1
  /\ fs = [p \in PoolPaths(variant, seed) \cup {dockerfileName} |-> NoFile]
  /\ tar = NoTar
  /\ builds = 0
  /\ globalRand = 0
  /\ allGeneratedFiles = <<>>
  /\ src = 0
  /\ dockerClient = FALSE
  /\ layerSizeKB = 0
  /\ layerCount = 0
  /\ pc = "idle"
  /\ err = nil
  /\ calls = 0
  /\ factoryCalls = 0
  /\ preFs = fs
  /\ preFiles = <<>>
  /\ preBuilds = 0
  /\ written = {}
  /\ stages = <<>>
  /\ rerun = FALSE
  /\ pooled = {}
  /\ unshuffled = <<>>
  /\ js = <<>>
  /\ lastOrder = NoOrder
  /\ prevOrder = NoOrder
  /\ \/ \E n \in 0..MaxRandN, d \in SourceDraws(0) :
          fn = [mode |-> "randBytes", n |-> n, st |-> randBytesInit(n, d),
                prev |-> randBytesInit(n, d), draw |-> d, steps |-> 0]
     \/ \E l \in Lists :
          fn = [mode |-> "shuffle", orig |-> l, list |-> l, i |-> 0, j |-> 0]

\* One iteration of the loop of randBytes.
RandBytesStep ==
  /\ fn.mode = "randBytes"
  /\ fn.st.i >= 0
  /\ \E d \in (IF fn.st.remain = 0 THEN SourceDraws(fn.st.taken) ELSE {fn.draw}) :
       fn' = [fn EXCEPT !.st = randBytesIter(fn.st, d), !.prev = fn.st,
                        !.draw = d, !.steps = @ + 1]
  /\ UNCHANGED <<progVars, histVars>>

\* One iteration of the loop of shuffleGeneratedFilePaths.
ShuffleStep ==
  /\ fn.mode = "shuffle"
  /\ fn.i < Len(fn.list)
  /\ \E j \in 0..fn.i :
       fn' = [fn EXCEPT !.list = swap(@, fn.i, j), !.i = @ + 1, !.j = j]
  /\ UNCHANGED <<progVars, histVars>>

NextFn ==
  \/ RandBytesStep
  \/ ShuffleStep

SpecFn ==
  InitFn /\ [][NextFn]_vars /\ WF_vars(RandBytesStep) /\ WF_vars(ShuffleStep)

(***************************************************************************)
(* Properties.                                                             *)
(***************************************************************************)
\* The path of the file of index i of the running call.
CallPath(i) ==
  FilePath(variant, seed, layerSizeKB, i)

CallPaths ==
  [k \in 1..layerCount |-> CallPath(k - 1)]

IsLetter(x) ==
  x \in (97..122) \cup (65..90)

\* A file of the pool as the contract wants it.
IsPoolFile(d, sizeKB) ==
  /\ d # NoFile
  /\ Len(d) = sizeKB * 1024
  /\ \A k \in 1..Len(d) : IsLetter(d[k])

\* generateRandomFilePool has just returned nil.
PoolReturned ==
  pc = "shuffle"

Occurrences(list, x) ==
  Cardinality({k \in 1..Len(list) : list[k] = x})

SameElements(a, b) ==
  /\ Len(a) = Len(b)
  /\ \A k \in 1..Len(a) : Occurrences(a, a[k]) = Occurrences(b, a[k])

IsPrefix(a, b) ==
  /\ Len(a) <= Len(b)
  /\ a = SubSeq(b, 1, Len(a))

\* C1 as stated: after generateRandomFilePool returns without error, every
\* file random_<sizeKB>KB_<i>.txt, i < count, exists and holds sizeKB*1024
\* letters, whatever the directory held before.
C1_AllFilesValid ==
  PoolReturned => \A i \in 0..(layerCount - 1) : IsPoolFile(fs[CallPath(i)], layerSizeKB)

\* C1 amended: after generateRandomFilePool returns without error, every file
\* of index i < count exists; the files that did not exist when the call
\* started hold sizeKB*1024 letters, and the files that did exist hold what
\* they held before.
C1_WrittenFilesValid ==
  PoolReturned =>
    \A i \in 0..(layerCount - 1) :
      /\ fs[CallPath(i)] # NoFile
      /\ preFs[CallPath(i)] = NoFile => IsPoolFile(fs[CallPath(i)], layerSizeKB)
      /\ preFs[CallPath(i)] # NoFile => fs[CallPath(i)] = preFs[CallPath(i)]

C1_Witness ==
  /\ PoolReturned
  /\ \E i, k \in 0..(layerCount - 1) :
       /\ preFs[CallPath(i)] = NoFile
       /\ IsPoolFile(fs[CallPath(i)], layerSizeKB)
       /\ preFs[CallPath(k)] = Junk
       /\ fs[CallPath(k)] = Junk

\* C2: a file that exists at its path when a call starts is never rewritten
\* by the call, and a pool generation that follows a successful one with the
\* same seed, size and count writes no file.
C2_Idempotent ==
  /\ \A p \in PoolPaths(variant, seed) : preFs[p] # NoFile => fs[p] = preFs[p]
  /\ (PoolReturned /\ rerun) =>
       /\ written = {}
       /\ \A i \in 0..(layerCount - 1) :
            preFs[CallPath(i)] # NoFile /\ fs[CallPath(i)] = preFs[CallPath(i)]

C2_Witness ==
  /\ PoolReturned
  /\ rerun
  /\ layerCount = MaxCount
  /\ \E i \in 0..(layerCount - 1) : IsPoolFile(fs[CallPath(i)], layerSizeKB)

\* C3 as stated: two first calls of GenerateImage on new factories, with the
\* same seed, size and count, leave the paths in the same shuffled order,
\* whatever files each of them found.
C3_SameOrder ==
  (/\ lastOrder.valid
   /\ prevOrder.valid
   /\ lastOrder.sizeKB = prevOrder.sizeKB
   /\ lastOrder.count = prevOrder.count)
    => lastOrder.order = prevOrder.order

\* The file system a first call on a new factory leaves when it finds the
\* pool directory empty.
EmptyDirPool ==
  generateRandomFilePool(
    [files |-> <<>>,
     fsys |-> [p \in PoolPaths(variant, seed) \cup {dockerfileName} |-> NoFile],
     src |-> 0, written |-> {}, err |-> nil],
    [v |-> variant, seed |-> seed, sizeKB |-> layerSizeKB, count |-> layerCount],
    NoFault).fsys

\* C4 as stated: the bytes a first call on a new factory writes to the file
\* of index i do not depend on which other files existed: they are the bytes
\* the call writes to it when no file exists.
C4_SameBytes ==
  (PoolReturned /\ factoryCalls = 1) =>
    \A i \in 0..(layerCount - 1) :
      CallPath(i) \in written => fs[CallPath(i)] = EmptyDirPool[CallPath(i)]

\* C5 as stated: after a successful GenerateImage the archive holds count+1
\* entries, the shuffled paths and then the dockerfile, each with the size
\* of its content.
C5_ArchiveEntries ==
  (pc = "returned" /\ err = nil) =>
    /\ tar.exists
    /\ Len(tar.entries) = layerCount + 1
    /\ [k \in 1..Len(tar.entries) |-> tar.entries[k].hdr.Name]
         = Append(allGeneratedFiles, dockerfileName)
    /\ \A k \in 1..Len(tar.entries) :
         /\ tar.entries[k].hdr.Size = Len(tar.entries[k].body)
         /\ tar.entries[k].body = fs[tar.entries[k].hdr.Name]

\* C6: when generateRandomFilePool returns without error it has appended to
\* the list the paths of the indices 0..count-1, in this order, one each,
\* written or skipped; nothing when count is 0.
C6_AppendsInOrder ==
  PoolReturned => allGeneratedFiles = preFiles \o CallPaths

C6_Witness ==
  /\ PoolReturned
  /\ layerCount >= 2
  /\ written # {}
  /\ \E i \in 0..(layerCount - 1) : CallPath(i) \notin written
  /\ allGeneratedFiles = preFiles \o CallPaths

C6_WitnessEmpty ==
  /\ PoolReturned
  /\ layerCount = 0
  /\ factoryCalls = 1
  /\ allGeneratedFiles = <<>>

\* C7: every iteration of the shuffle swaps the element at i with the one at
\* a j in 0..i, and the list keeps its length and its elements, each as many
\* times as before, whatever the source returns.
C7_Permutes ==
  fn.mode = "shuffle" =>
    /\ SameElements(fn.list, fn.orig)
    /\ fn.i \in 0..Len(fn.list)
    /\ fn.i > 0 => fn.j \in 0..(fn.i - 1)
    /\ SubSeq(fn.list, fn.i + 1, Len(fn.list)) = SubSeq(fn.orig, fn.i + 1, Len(fn.orig))

C7_Witness ==
  /\ fn.mode = "shuffle"
  /\ Len(fn.list) > 2
  /\ fn.i = Len(fn.list)
  /\ fn.j < fn.i - 1
  /\ fn.list # fn.orig
  /\ SameElements(fn.list, fn.orig)

\* The lines of a text that ends every line with a newline.
Newlines(text) ==
  {k \in 1..Len(text) : text[k] = 10}

LineEnd(text, m) ==
  CHOOSE k \in Newlines(text) : Cardinality({x \in Newlines(text) : x <= k}) = m

Line(text, m) ==
  SubSeq(text, IF m = 1 THEN 1 ELSE LineEnd(text, m - 1) + 1, LineEnd(text, m) - 1)

\* C8 as stated: the dockerfile written is the header line and then one ADD
\* line for every path of the list, in the list's order; with count 0 it is
\* the header line only, and the archive then has one entry.
C8_Dockerfile ==
  LET text == fs[dockerfileName]
  IN /\ pc = "archive" =>
          /\ text # NoFile
          /\ text # <<>>
          /\ text[Len(text)] = 10
          /\ Cardinality(Newlines(text)) = Len(allGeneratedFiles) + 1
          /\ Line(text, 1) = <<70, 82, 79, 77, 32, 115, 99, 114, 97, 116, 99, 104>>
          /\ \A m \in 1..Len(allGeneratedFiles) :
               Line(text, m + 1) = <<65, 68, 68, 32>> \o allGeneratedFiles[m]
                                     \o <<32, 47, 111, 112, 116>>
          /\ layerCount = 0 => Cardinality(Newlines(text)) = 1
     /\ (pc = "build" /\ layerCount = 0) => Len(tar.entries) = 1

\* The letter of an index below 52.
LetterOf(idx) ==
  IF idx < 26 THEN 97 + idx ELSE 65 + (idx - 26)

\* C9, every iteration: the buffer has n bytes, those above i are letters and
\* the others untouched; a new value is drawn exactly when the ten 6-bit
\* digits of the last one are used up; a digit below 52 puts its letter at i
\* and moves i down, a digit from 52 on changes nothing.
C9_Iteration ==
  fn.mode = "randBytes" =>
    LET st == fn.st
        prev == fn.prev
        refilled == st.taken = prev.taken + 1
        digit == IF refilled THEN fn.draw[1] ELSE prev.cache[1]
    IN /\ Len(st.b) = fn.n
       /\ st.i \in -1..(fn.n - 1)
       /\ \A k \in 1..fn.n : IF k > st.i + 1 THEN IsLetter(st.b[k]) ELSE st.b[k] = 0
       /\ fn.steps > 0 =>
            /\ refilled <=> Len(prev.cache) = 1
            /\ ~refilled => st.taken = prev.taken
            /\ Len(st.cache) = (IF refilled THEN 11 ELSE Len(prev.cache)) - 1
            /\ digit < 52 => /\ st.i = prev.i - 1
                             /\ st.b = [prev.b EXCEPT ![prev.i + 1] = LetterOf(digit)]
            /\ digit >= 52 => st.i = prev.i /\ st.b = prev.b

\* C9: randBytes(n) keeps C9_Iteration and returns, with n letters, once the
\* source has returned enough digits below 52.
C9_RandBytes ==
  /\ []C9_Iteration
  /\ <>(fn.mode = "randBytes" => (fn.st.i < 0 /\ \A k \in 1..fn.n : IsLetter(fn.st.b[k])))

C9_Witness ==
  /\ fn.mode = "randBytes"
  /\ fn.n = MaxRandN
  /\ fn.st.i < 0
  /\ fn.st.taken > 1
  /\ fn.steps > letterIdxMax
  /\ \A k \in 1..fn.n : IsLetter(fn.st.b[k])

StageOrder ==
  <<"pool", "shuffle", "dockerfile", "archive", "build">>

ErrStage(e) ==
  CASE e \in {"mkdir", "stat", "write"} -> "pool"
    [] e = "dockerfile" -> "dockerfile"
    [] e \in {"tarCreate", "tarStat", "tarRead", "tarHeader", "tarBody"} -> "archive"
    [] OTHER -> "build"

\* C10: the stages of a call run in the order pool, shuffle, dockerfile,
\* archive, build; the first error ends the call with that error, no later
\* stage runs, the daemon is not called unless the build stage was reached,
\* and what was written before stays: the pool files, the dockerfile, the
\* partial archive.
C10_AbortOnFirstError ==
  /\ IsPrefix(stages, StageOrder)
  /\ pc \in {"pool", "shuffle", "dockerfile", "archive", "build"} =>
       /\ StageOrder[Len(stages) + 1] = pc
       /\ err = nil
  /\ (pc = "returned" /\ err = nil) => (stages = StageOrder /\ builds = preBuilds + 1)
  /\ err # nil =>
       /\ pc = "returned"
       /\ stages # <<>>
       /\ stages[Len(stages)] = ErrStage(err)
       /\ err \notin {nil, "build"} => builds = preBuilds
       /\ \A p \in written : IsPoolFile(fs[p], layerSizeKB)
       /\ ErrStage(err) \in {"archive", "build"} =>
            fs[dockerfileName] = dockerfileText(allGeneratedFiles)
       /\ err \in {"tarStat", "tarRead", "tarHeader", "tarBody"} =>
            /\ tar.exists
            /\ Len(tar.entries) <= Len(allGeneratedFiles) + 1
            /\ \A k \in 1..Len(tar.entries) :
                 tar.entries[k].hdr.Name = Append(allGeneratedFiles, dockerfileName)[k]

C10_Witness ==
  /\ pc = "returned"
  /\ err = "tarBody"
  /\ written # {}
  /\ Len(tar.entries) = layerCount
  /\ stages = <<"pool", "shuffle", "dockerfile", "archive">>
  /\ builds = preBuilds

====
